---------------------------- MODULE Spec2Model ----------------------------
(***************************************************************************)
(* A model of the time-value-of-money calculator of src/src/App.tsx: the   *)
(* React component App with its state (the six text fields of              *)
(* CalculatorState and lastSolved), its handlers handleInputChange and     *)
(* solveFor, the Newton-Raphson solver calculateInterestRate and the       *)
(* highlight timer of the useEffect hook.                                  *)
(*                                                                         *)
(* Numbers.  A JavaScript number is modelled as a record                   *)
(*     [k |-> "fin", n |-> num, d |-> den]   an exact rational num/den,    *)
(*     [k |-> "nan", ...]                    NaN,                          *)
(*     [k |-> "inf", n |-> 1 or -1, ...]     +Infinity or -Infinity,       *)
(*     [k |-> "oor", ...]                    a real number outside the     *)
(*                                           range the model carries.      *)
(* Finite arithmetic is exact: the rounding error of IEEE-754 doubles is   *)
(* not modelled, and neither is the sign of zero (so the sign of an        *)
(* infinity produced by a division by zero is the sign of the dividend).   *)
(* NaN and the infinities follow IEEE-754 as JavaScript implements it.     *)
(* A rational whose reduced numerator or denominator exceeds Cap, and an   *)
(* irrational power or logarithm, is "oor": some number the model does not *)
(* know.  An operation on it gives NaN where IEEE-754 gives NaN whatever   *)
(* the number is, and "oor" otherwise; a solve whose result is "oor" is    *)
(* outside the model (the action is not taken).                            *)
(*                                                                         *)
(* Strings.  A JavaScript string is a sequence of one-character strings,   *)
(* so that parseFloat, toFixed and the sanitising regular expression are   *)
(* modelled by what they do to the characters.                             *)
(***************************************************************************)
EXTENDS Integers, Sequences, FiniteSets, TLC

(***************************************************************************)
(* Bounds of the model.                                                    *)
(***************************************************************************)
\* Largest numerator and denominator of a rational the model carries.
Cap == 30000
\* Largest number of results solveFor stores in one run of the model.
MaxSolves == 2

(***************************************************************************)
(* Numbers                                                                 *)
(***************************************************************************)
NaN == [k |-> "nan", n |-> 0, d |-> 1]
PosInf == [k |-> "inf", n |-> 1, d |-> 1]
NegInf == [k |-> "inf", n |-> -1, d |-> 1]
OutOfRange == [k |-> "oor", n |-> 0, d |-> 1]

AbsInt(i) == IF i < 0 THEN -i ELSE i
SignInt(i) == IF i < 0 THEN -1 ELSE IF i > 0 THEN 1 ELSE 0

RECURSIVE GCD(_, _)
GCD(a, b) == IF b = 0 THEN a ELSE GCD(b, a % b)

\* num/den (den > 0) divided through by the common divisor g.
Reduced(num, den, g) ==
    IF AbsInt(num) \div g > Cap \/ den \div g > Cap
    THEN OutOfRange
    ELSE [k |-> "fin", n |-> num \div g, d |-> den \div g]

\* The rational num/den (den # 0) in lowest terms with a positive denominator.
Fin(num, den) ==
    Reduced(SignInt(den) * num, AbsInt(den), GCD(AbsInt(num), AbsInt(den)))

Whole(i) == Fin(i, 1)
Zero == [k |-> "fin", n |-> 0, d |-> 1]
One == [k |-> "fin", n |-> 1, d |-> 1]

IsFinite(x) == x.k = "fin"
IsNaN(x) == x.k = "nan"
IsInf(x) == x.k = "inf"
IsOOR(x) == x.k = "oor"
IsZero(x) == x.k = "fin" /\ x.n = 0
\* -1, 0 or 1 for a finite or infinite number.
Sgn(x) == SignInt(x.n)
IsInteger(x) == x.k = "fin" /\ x.d = 1

\* Unary minus.
Neg(x) == IF x.k \in {"fin", "inf"} THEN [x EXCEPT !.n = -x.n] ELSE x

\* x + y
Add(x, y) ==
    IF x.k = "nan" \/ y.k = "nan" THEN NaN
    ELSE IF x.k = "oor" \/ y.k = "oor" THEN OutOfRange
    ELSE IF IsInf(x) /\ IsInf(y) THEN (IF x.n = y.n THEN x ELSE NaN)
    ELSE IF IsInf(x) THEN x
    ELSE IF IsInf(y) THEN y
    ELSE Fin(x.n * y.d + y.n * x.d, x.d * y.d)

\* x - y
Sub(x, y) == Add(x, Neg(y))

\* x * y
Mul(x, y) ==
    IF x.k = "nan" \/ y.k = "nan" THEN NaN
    ELSE IF x.k = "oor" \/ y.k = "oor" THEN OutOfRange
    ELSE IF IsInf(x) \/ IsInf(y)
         THEN (IF IsZero(x) \/ IsZero(y) THEN NaN
               ELSE IF Sgn(x) * Sgn(y) > 0 THEN PosInf ELSE NegInf)
    ELSE Fin(x.n * y.n, x.d * y.d)

\* x / y
Div(x, y) ==
    IF x.k = "nan" \/ y.k = "nan" THEN NaN
    ELSE IF x.k = "oor" \/ y.k = "oor" THEN OutOfRange
    ELSE IF IsInf(x) /\ IsInf(y) THEN NaN
    ELSE IF IsInf(y) THEN Zero
    ELSE IF IsZero(y)
         THEN (IF IsZero(x) THEN NaN
               ELSE IF Sgn(x) > 0 THEN PosInf ELSE NegInf)
    ELSE IF IsInf(x) THEN (IF Sgn(x) * Sgn(y) > 0 THEN PosInf ELSE NegInf)
    ELSE Fin(x.n * y.d, x.d * y.n)

\* Math.abs(x)
MathAbs(x) == IF x.k \in {"fin", "inf"} THEN [x EXCEPT !.n = AbsInt(x.n)] ELSE x

\* x < y for a finite y = 1/q, x not out of range; false when x is NaN.
\* |num|/den < 1/q  iff  |num| * q < den  iff  |num| <= (den - 1) \div q.
LessThan(x, y) ==
    /\ IsFinite(x)
    /\ IsFinite(y)
    /\ IF y.n = 1
       THEN x.n <= 0 \/ x.n <= (x.d - 1) \div y.d
       ELSE x.n * y.d < y.n * x.d

\* base^e for a natural number e, by repeated multiplication; stops as soon as
\* the product leaves the model's range.
RECURSIVE PowAcc(_, _, _)
PowAcc(acc, base, e) ==
    IF e = 0 \/ IsOOR(acc) THEN acc ELSE PowAcc(Mul(acc, base), base, e - 1)

\* base ** exponent (Number::exponentiate of ECMAScript).
Pow(base, exponent) ==
    IF IsNaN(exponent) THEN NaN
    ELSE IF IsZero(exponent) THEN One
    ELSE IF IsNaN(base) THEN NaN
    ELSE IF IsOOR(base) \/ IsOOR(exponent) THEN OutOfRange
    ELSE IF IsInf(exponent)
         THEN (IF IsInf(base) \/ AbsInt(base.n) > base.d
               THEN (IF Sgn(exponent) > 0 THEN PosInf ELSE Zero)
               ELSE IF AbsInt(base.n) = base.d THEN NaN
               ELSE IF Sgn(exponent) > 0 THEN Zero ELSE PosInf)
    ELSE IF IsInf(base)
         THEN (IF Sgn(exponent) < 0 THEN Zero
               ELSE IF Sgn(base) < 0 /\ IsInteger(exponent) /\ exponent.n % 2 = 1
                    THEN NegInf ELSE PosInf)
    ELSE IF IsZero(base) THEN (IF Sgn(exponent) > 0 THEN Zero ELSE PosInf)
    ELSE IF ~IsInteger(exponent)
         THEN (IF Sgn(base) < 0 THEN NaN
               ELSE IF base = One THEN One ELSE OutOfRange)
    ELSE IF base = One THEN One
    ELSE IF base = Neg(One)
         THEN (IF exponent.n % 2 = 0 THEN One ELSE Neg(One))
    ELSE LET p == PowAcc(One, base, AbsInt(exponent.n))
         IN  IF Sgn(exponent) > 0 THEN p ELSE Div(One, p)

\* Math.log(x).  The logarithm of a positive rational other than 1 is
\* irrational; it is carried symbolically as [k |-> "ln", n, d] = ln(n/d).
MathLog(x) ==
    IF IsNaN(x) THEN NaN
    ELSE IF IsOOR(x) THEN OutOfRange
    ELSE IF Sgn(x) < 0 THEN NaN
    ELSE IF IsInf(x) THEN PosInf
    ELSE IF IsZero(x) THEN NegInf
    ELSE IF x = One THEN Zero
    ELSE [k |-> "ln", n |-> x.n, d |-> x.d]

IsLn(x) == x.k = "ln"
LnArg(x) == [k |-> "fin", n |-> x.n, d |-> x.d]
\* The sign of ln(n/d): positive iff n/d > 1.
LnSign(x) == IF x.n > x.d THEN 1 ELSE -1

\* The natural number e with base^e = target, or -1 when the model finds
\* none (acc = base^e on entry).
RECURSIVE FindExp(_, _, _, _)
FindExp(target, base, acc, e) ==
    IF acc = target THEN e
    ELSE IF IsOOR(acc) THEN -1
    ELSE FindExp(target, base, Mul(acc, base), e + 1)

\* a / b where a and b are results of Math.log.  ln(x)/ln(y) is the integer
\* e when x = y^e; any other quotient of two logarithms is out of range.
LogDiv(a, b) ==
    IF IsNaN(a) \/ IsNaN(b) THEN NaN
    ELSE IF IsOOR(a) \/ IsOOR(b) THEN OutOfRange
    ELSE IF ~IsLn(a) /\ ~IsLn(b) THEN Div(a, b)
    ELSE IF IsLn(a) /\ IsLn(b)
         THEN LET up == FindExp(LnArg(a), LnArg(b), One, 0)
                  down == FindExp(Div(One, LnArg(a)), LnArg(b), One, 0)
              IN  IF up >= 0 THEN Whole(up)
                  ELSE IF down >= 0 THEN Whole(-down)
                  ELSE OutOfRange
    ELSE IF IsLn(a)
         THEN (IF IsInf(b) THEN Zero
               ELSE IF LnSign(a) > 0 THEN PosInf ELSE NegInf)
    ELSE (IF IsZero(a) THEN Zero
          ELSE IF Sgn(a) * LnSign(b) > 0 THEN PosInf ELSE NegInf)

(***************************************************************************)
(* Strings                                                                 *)
(***************************************************************************)
DigitChars == <<"0", "1", "2", "3", "4", "5", "6", "7", "8", "9">>
IsDigit(c) == \E i \in 1..10 : DigitChars[i] = c
DigitVal(c) == (CHOOSE i \in 1..10 : DigitChars[i] = c) - 1

NaNString == <<"N", "a", "N">>
InfinityString == <<"I", "n", "f", "i", "n", "i", "t", "y">>

RECURSIVE Pow10(_)
Pow10(e) == IF e = 0 THEN 1 ELSE 10 * Pow10(e - 1)

\* The longest prefix of s made of decimal digits.
RECURSIVE DigitsPrefix(_)
DigitsPrefix(s) ==
    IF Len(s) = 0 \/ ~IsDigit(s[1]) THEN <<>>
    ELSE <<s[1]>> \o DigitsPrefix(Tail(s))

RECURSIVE StripLeadingZeros(_)
StripLeadingZeros(s) ==
    IF Len(s) > 0 /\ s[1] = "0" THEN StripLeadingZeros(Tail(s)) ELSE s

RECURSIVE StripTrailingZeros(_)
StripTrailingZeros(s) ==
    IF Len(s) > 0 /\ s[Len(s)] = "0"
    THEN StripTrailingZeros(SubSeq(s, 1, Len(s) - 1)) ELSE s

RECURSIVE DigitsToInt(_)
DigitsToInt(s) ==
    IF Len(s) = 0 THEN 0
    ELSE 10 * DigitsToInt(SubSeq(s, 1, Len(s) - 1)) + DigitVal(s[Len(s)])

\* The value of the decimal literal ip.fp (digit sequences).
Decimal(ip, fp) ==
    LET i == StripLeadingZeros(ip)
        f == StripTrailingZeros(fp)
    IN  IF Len(i) + Len(f) > 9 THEN OutOfRange
        ELSE Fin(DigitsToInt(i \o f), Pow10(Len(f)))

StartsWith(s, prefix) ==
    Len(s) >= Len(prefix) /\ SubSeq(s, 1, Len(prefix)) = prefix

\* parseFloat(s): the value of the longest prefix of s that is a
\* StrDecimalLiteral, NaN when there is none.  (Leading white space, a
\* leading "+" and an exponent part do not occur: the sanitiser removes
\* them from typed text and toFixed does not produce them in range.)
parseFloat(s) ==
    LET neg == Len(s) > 0 /\ s[1] = "-"
        body == IF neg THEN Tail(s) ELSE s
        ip == DigitsPrefix(body)
        rest == SubSeq(body, Len(ip) + 1, Len(body))
        fp == IF Len(rest) > 0 /\ rest[1] = "."
              THEN DigitsPrefix(Tail(rest)) ELSE <<>>
        mag == IF StartsWith(body, InfinityString) THEN PosInf
               ELSE IF Len(ip) + Len(fp) = 0 THEN NaN
               ELSE Decimal(ip, fp)
    IN  IF neg THEN Neg(mag) ELSE mag

\* The decimal digits of the natural number i, at least `width` of them.
RECURSIVE IntToDigits(_, _)
IntToDigits(i, width) ==
    IF i < 10 /\ width <= 1 THEN <<DigitChars[i + 1]>>
    ELSE IntToDigits(i \div 10, width - 1) \o <<DigitChars[(i % 10) + 1]>>

\* Number.prototype.toFixed(fractionDigits) for fractionDigits >= 1: the
\* integer m nearest to |x| * 10^f (the larger one on a tie), written with
\* a decimal point before its last f digits, after "-" when x < 0.
toFixed(x, fractionDigits) ==
    IF IsNaN(x) THEN NaNString
    ELSE IF IsInf(x)
         THEN (IF Sgn(x) > 0 THEN InfinityString ELSE <<"-">> \o InfinityString)
    ELSE IF IsOOR(x) THEN <<>>
    ELSE LET m == (2 * AbsInt(x.n) * Pow10(fractionDigits) + x.d) \div (2 * x.d)
             ds == IntToDigits(m, fractionDigits + 1)
             cut == Len(ds) - fractionDigits
             txt == SubSeq(ds, 1, cut) \o <<".">> \o SubSeq(ds, cut + 1, Len(ds))
         IN  IF x.n < 0 THEN <<"-">> \o txt ELSE txt

\* value.replace(/[^0-9.-]/g, '')
sanitize(value) == SelectSeq(value, LAMBDA c : IsDigit(c) \/ c = "." \/ c = "-")


(***************************************************************************)
(* The calculator                                                          *)
(***************************************************************************)
Fields == {"presentValue", "futureValue", "interestRate", "numberOfPeriods",
           "payment"}
Keys == Fields \cup {"paymentFrequency"}
null == "null"

frequencyMap ==
    [monthly |-> 12, yearly |-> 1, daily |-> 365, weekly |-> 52,
     semimonthly |-> 24, biweekly |-> 26, semiannually |-> 2]
PaymentFrequency == DOMAIN frequencyMap

initialState ==
    [presentValue |-> <<>>, futureValue |-> <<>>, interestRate |-> <<>>,
     numberOfPeriods |-> <<>>, payment |-> <<>>, paymentFrequency |-> "monthly"]

tolerance == [k |-> "fin", n |-> 1, d |-> 1000000]
maxIterations == 100
initialGuess == Fin(1, 10)
\* The 100 of "/ 100" and "* 100", the 2 of "r ** 2".
Hundred == Whole(100)
Two == Whole(2)

(***************************************************************************)
(* Inputs of the model: the texts typed (or pasted) into each field, as    *)
(* the change event delivers them, and the frequencies selected.  Every    *)
(* field starts empty (initialState), so every solve is also tried with    *)
(* empty fields.  With the monthly frequency the rate text "1200" is the   *)
(* periodic rate r = 1 and "0" is r = 0.                                   *)
(***************************************************************************)
TypedText(name) ==
    CASE name = "presentValue" -> {<<>>, <<"1", "x">>}
      [] name = "futureValue" -> {<<"-", "2">>}
      [] name = "interestRate" -> {<<"0">>, <<"1", "2", "0", "0", "%">>}
      [] name = "numberOfPeriods" -> {<<"0">>, <<"1">>}
      [] name = "payment" -> {<<"1">>}
\* The option chosen in the select.  The frequency enters the computation
\* as the divisor of getEffectiveRate and the factor of line 65 only.
SelectedFrequency == {"monthly"}

VARIABLES
    state,       \* the CalculatorState of useState (line 35)
    lastSolved,  \* the field last solved, or null (line 36)
    timers,      \* the pending timeouts of the effect, each named by the
                 \* value of lastSolved it was started for (line 112)
    call,        \* the last call of solveFor: its locals and how it ended
    solves       \* the number of results stored so far

vars == <<state, lastSolved, timers, call, solves>>

\* getEffectiveRate() with the component's state st.
getEffectiveRate(st) ==
    Div(Div(parseFloat(st.interestRate), Hundred),
        Whole(frequencyMap[st.paymentFrequency]))

\* f of line 59.
NewtonF(pv, fv, n, pmt, r) ==
    LET g == Pow(Add(One, r), n)
    IN  Add(Add(Mul(pv, g), Div(Mul(pmt, Sub(g, One)), r)), fv)

\* df of line 60.
NewtonDf(pv, fv, n, pmt, r) ==
    LET g == Pow(Add(One, r), n)
        h == Pow(Add(One, r), Sub(n, One))
    IN  Add(Mul(Mul(n, pv), h),
            Div(Mul(pmt, Sub(Mul(Mul(n, h), r), Sub(g, One))), Pow(r, Two)))

FiniteOr(r, other) == IF IsFinite(r) THEN r ELSE other

\* The first r of the loop as it would be if the solver started from the
\* rate currently entered when there is one.
WarmStart(st) == FiniteOr(getEffectiveRate(st), initialGuess)

\* Lines 64-68 of a pass of the loop, newR being computed: the test of the
\* step against the tolerance, then the return or the assignment to r.
LoopTest(st, l, newR) ==
    IF IsOOR(newR) \/ IsOOR(MathAbs(Sub(newR, l.r))) \/ IsZero(newR)
    THEN [l EXCEPT !.end = "oor", !.value = OutOfRange]
    ELSE IF LessThan(MathAbs(Sub(newR, l.r)), tolerance)
    THEN [l EXCEPT !.end = "return",
                   !.value = Mul(Mul(newR, Whole(frequencyMap[st.paymentFrequency])),
                                 Hundred),
                   !.rs = Append(l.rs, newR)]
    ELSE [l EXCEPT !.i = l.i + 1, !.r = newR, !.rs = Append(l.rs, newR)]

\* One pass of the for loop of calculateInterestRate (lines 58-69) from the
\* loop state l = [i, r, rs, end, value]: i and r are the loop's variables,
\* rs the sequence of the newR computed so far, end = "loop" while the loop
\* runs, "return" once line 65 returned `value`, "oor" once an iterate left
\* the model's range.  An iterate that is exactly 0 is out of range too: f
\* divides by r, and next to that singular point the rounding errors the
\* model leaves out decide what the floating-point iteration does.
LoopBody(st, pv, fv, n, pmt, l) ==
    IF l.end # "loop" \/ ~(l.i < maxIterations) THEN l
    ELSE LoopTest(st, l, Sub(l.r, Div(NewtonF(pv, fv, n, pmt, l.r),
                                      NewtonDf(pv, fv, n, pmt, l.r))))

\* `count` NaNs.
NaNs(count) == [j \in 1..count |-> NaN]

\* `left` passes of the loop from a loop state whose r is NaN.
NaNPasses(l, left) ==
    [l EXCEPT !.i = l.i + left, !.rs = l.rs \o NaNs(left)]

\* `count` passes of the loop from the loop state l.  The passes are split
\* in two halves to keep the evaluation shallow.  Once r is NaN every pass
\* computes newR = NaN (f divides by r, and newR = r - f / df), fails the
\* test of line 64 and leaves r = NaN: the passes that remain are taken at
\* once.
RECURSIVE Passes(_, _, _, _, _, _, _)
RECURSIVE PassesAfter(_, _, _, _, _, _, _)
Passes(st, pv, fv, n, pmt, l, count) ==
    IF count = 0 \/ l.end # "loop" \/ ~(l.i < maxIterations) THEN l
    ELSE IF IsNaN(l.r)
    THEN NaNPasses(l, IF count < maxIterations - l.i THEN count
                      ELSE maxIterations - l.i)
    ELSE IF count = 1 THEN LoopBody(st, pv, fv, n, pmt, l)
    ELSE PassesAfter(st, pv, fv, n, pmt,
                     Passes(st, pv, fv, n, pmt, l, count \div 2),
                     count - count \div 2)

\* The second half of the passes, from the loop state the first half left.
PassesAfter(st, pv, fv, n, pmt, half, count) ==
    IF half.end # "loop" THEN half
    ELSE Passes(st, pv, fv, n, pmt, half, count)

\* The loop state before the first pass: i = 0 and r as given.
LoopStart(r) ==
    [i |-> 0, r |-> r, rs |-> <<>>, end |-> "loop", value |-> NaN]

\* What calculateInterestRate does once the loop has ended in l: it has
\* returned from inside the loop, or it reaches the throw of line 71.
AfterLoop(l) ==
    [end |-> IF l.end = "loop" THEN "throw" ELSE l.end,
     value |-> l.value, rs |-> l.rs]

\* The end of calculateInterestRate as it would be if, the loop having run
\* out, it returned the last r as a best effort instead of throwing.
AfterLoop_BestEffort(st, l) ==
    [end |-> IF l.end = "loop" THEN "return" ELSE l.end,
     value |-> IF l.end = "loop"
               THEN Mul(Mul(l.r, Whole(frequencyMap[st.paymentFrequency])), Hundred)
               ELSE l.value,
     rs |-> l.rs]

\* calculateInterestRate as it would be if it started from the rate entered.
calculateInterestRate_WarmStart(st, pv, fv, n, pmt) ==
    AfterLoop(Passes(st, pv, fv, n, pmt, LoopStart(WarmStart(st)), maxIterations))

\* calculateInterestRate as it would be if, the loop having run out, it
\* returned the last r as a best effort instead of throwing.
calculateInterestRate_BestEffort(st, pv, fv, n, pmt) ==
    AfterLoop_BestEffort(st, Passes(st, pv, fv, n, pmt, LoopStart(initialGuess),
                                    maxIterations))

\* calculateInterestRate(pv, fv, n, pmt) with the component's state st: the
\* loop from i = 0 and r = 0.1, then the throw of line 71 when the loop ran
\* out.  end = "return" with the value returned, "throw" for the Error,
\* "oor" outside the model; rs holds every newR computed.
calculateInterestRate(st, pv, fv, n, pmt) ==
    AfterLoop(Passes(st, pv, fv, n, pmt, LoopStart(initialGuess), maxIterations))

\* The locals r, n, pv, fv, pmt of solveFor (lines 75-79).
SolveLocals(st) ==
    [r |-> getEffectiveRate(st),
     n |-> parseFloat(st.numberOfPeriods),
     pv |-> parseFloat(st.presentValue),
     fv |-> Neg(parseFloat(st.futureValue)),
     pmt |-> parseFloat(st.payment)]

\* The presentValue branch as it would be if it kept a present value that
\* is already entered.
SolvePresentValue_KeepsEntered(r, n, pv, fv, pmt) ==
    LET g == Pow(Add(One, r), n)
    IN  IF IsFinite(pv) THEN pv
        ELSE Div(Sub(fv, Div(Mul(pmt, Sub(g, One)), r)), g)

\* The closed forms of the switch of solveFor (lines 84-98).
SolvePresentValue(r, n, pv, fv, pmt) ==
    LET g == Pow(Add(One, r), n)
    IN  Div(Sub(fv, Div(Mul(pmt, Sub(g, One)), r)), g)

SolveFutureValue(r, n, pv, fv, pmt) ==
    LET g == Pow(Add(One, r), n)
    IN  Neg(Add(Mul(pv, g), Div(Mul(pmt, Sub(g, One)), r)))

SolveNumberOfPeriods(r, n, pv, fv, pmt) ==
    LogDiv(MathLog(Div(Add(fv, Div(pmt, r)), Add(pv, Div(pmt, r)))),
           MathLog(Add(One, r)))

SolvePayment(r, n, pv, fv, pmt) ==
    LET g == Pow(Add(One, r), n)
    IN  Div(Mul(Sub(fv, Mul(pv, g)), r), Sub(g, One))

\* A closed form runs no iteration.
NoRun == [end |-> "none", value |-> NaN, rs |-> <<>>]

\* The record of a call solveFor(field) whose switch read the locals l: how
\* it ended ("result": result is assigned; "throw": calculateInterestRate
\* threw; "default": the default branch returned; "oor": outside the
\* model), the result and the iterates of calculateInterestRate, if any.
SwitchEnd(field, l, run, result) ==
    [op |-> "solveFor", field |-> field,
     end |-> IF field \notin Fields THEN "default"
             ELSE IF run.end = "throw" THEN "throw"
             ELSE IF IsOOR(result) THEN "oor"
             ELSE "result",
     locals |-> l, result |-> result, rs |-> run.rs]

\* The interestRate branch: result is what calculateInterestRate returned.
SwitchRate(field, l, run) == SwitchEnd(field, l, run, run.value)

\* The switch of solveFor (lines 83-101) on the locals l.
SwitchOn(st, field, l) ==
    IF field = "interestRate"
    THEN SwitchRate(field, l, calculateInterestRate(st, l.pv, Neg(l.fv), l.n, l.pmt))
    ELSE SwitchEnd(field, l, NoRun,
             CASE field = "presentValue" -> SolvePresentValue(l.r, l.n, l.pv, l.fv, l.pmt)
               [] field = "futureValue" -> SolveFutureValue(l.r, l.n, l.pv, l.fv, l.pmt)
               [] field = "numberOfPeriods" -> SolveNumberOfPeriods(l.r, l.n, l.pv, l.fv, l.pmt)
               [] field = "payment" -> SolvePayment(l.r, l.n, l.pv, l.fv, l.pmt)
               [] OTHER -> NaN)

\* solveFor(field) up to the end of its switch, with the component's state
\* st (lines 75-101).
SolveSwitch(st, field) == SwitchOn(st, field, SolveLocals(st))

\* The text solveFor stores in state[field] (line 105).
ResultText(field, result) ==
    IF field = "interestRate" THEN toFixed(result, 3) ELSE toFixed(result, 2)

\* The effect as it would be without the cleanup of line 113.
RunEffect_NoCleanup(old, new, tm) ==
    IF new = old THEN tm
    ELSE tm \cup (IF new # null THEN {new} ELSE {})

\* The effect of lines 110-115 after a render in which lastSolved went from
\* old to new: when the dependency changed, the cleanup of the previous
\* effect clears its timer and the new effect starts one when lastSolved is
\* set.
RunEffect(old, new, tm) ==
    IF new = old THEN tm
    ELSE (tm \ {old}) \cup (IF new # null THEN {new} ELSE {})

NoCall == [op |-> "none", field |-> null, end |-> "none",
           locals |-> SolveLocals(initialState), result |-> NaN, rs |-> <<>>]

Init ==
    /\ state = initialState
    /\ lastSolved = null
    /\ timers = {}
    /\ call = NoCall
    /\ solves = 0

\* handleInputChange for an event on the input `name` with text `value`.
handleInputChange(name, value) ==
    /\ state' = IF name = "paymentFrequency"
                THEN [state EXCEPT ![name] = value]
                ELSE [state EXCEPT ![name] = sanitize(value)]
    /\ call' = NoCall
    /\ UNCHANGED <<lastSolved, timers, solves>>

\* Lines 103-107 as they would be if setState replaced the state by the
\* solved field alone instead of spreading prevState.
AfterSwitch_DropsPrevState(field, c) ==
    /\ c.end # "oor"
    /\ call' = c
    /\ IF c.end = "result"
       THEN /\ solves < MaxSolves
            /\ state' = [initialState EXCEPT ![field] = ResultText(field, c.result)]
            /\ lastSolved' = field
            /\ timers' = RunEffect(lastSolved, field, timers)
            /\ solves' = solves + 1
       ELSE UNCHANGED <<state, lastSolved, timers, solves>>

\* solveFor with that setState.
solveFor_DropsPrevState(field) ==
    AfterSwitch_DropsPrevState(field, SolveSwitch(state, field))

\* solveFor(field) after its switch ended as c: when result is assigned,
\* setState and setLastSolved (lines 103-107) with the render and the effect
\* that follow them; when the switch threw or returned, nothing.
AfterSwitch(field, c) ==
    /\ c.end # "oor"
    /\ call' = c
    /\ IF c.end = "result"
       THEN /\ solves < MaxSolves
            /\ state' = [state EXCEPT ![field] = ResultText(field, c.result)]
            /\ lastSolved' = field
            /\ timers' = RunEffect(lastSolved, field, timers)
            /\ solves' = solves + 1
       ELSE UNCHANGED <<state, lastSolved, timers, solves>>

\* solveFor(field).
solveFor(field) == AfterSwitch(field, SolveSwitch(state, field))

\* The callback of setTimeout (line 112) runs for the pending timer t, with
\* the render and the effect that follow it.
TimerFires(t) ==
    /\ t \in timers
    /\ lastSolved' = null
    /\ timers' = RunEffect(lastSolved, null, timers \ {t})
    /\ call' = NoCall
    /\ UNCHANGED <<state, solves>>

TypeText == \E name \in Fields : \E value \in TypedText(name) : handleInputChange(name, value)
SelectFrequency == \E value \in SelectedFrequency : handleInputChange("paymentFrequency", value)
Solve == \E field \in Keys : solveFor(field)
Timeout == \E t \in Fields : TimerFires(t)

Next == TypeText \/ SelectFrequency \/ Solve \/ Timeout

Spec == Init /\ [][Next]_vars


\* The callback of a pending timeout runs once its delay has elapsed.
FairSpec == Spec /\ WF_vars(Timeout)

(***************************************************************************)
(* Properties                                                              *)
(***************************************************************************)
IsSolveCall(c) == c.op = "solveFor"
IsRateCall(c) == c.op = "solveFor" /\ c.field = "interestRate"
FiniteInputs(l, names) == \A x \in names : IsFinite(l[x])

\* |r_k - r_(k-1)| < 1e-6 for the k-th newR of a run, r_0 = 0.1.
StepMeetsTolerance(rs, k) ==
    LET before == IF k = 1 THEN Fin(1, 10) ELSE rs[k - 1]
    IN  LessThan(MathAbs(Sub(rs[k], before)), [k |-> "fin", n |-> 1, d |-> 1000000])

\* C1: calculateInterestRate ends within 100 Newton-Raphson iterations in
\* exactly one of two ways: it returns, and then the iteration at which it
\* returns is the first whose step |r_(k+1) - r_k| is below 1e-6; or all 100
\* iterations passed without such a step and it throws.  It never returns a
\* value whose last step did not meet the tolerance.
C1_ReturnsConvergedOrThrows ==
    IsRateCall(call) =>
        LET rs == call.rs
            last == Len(rs)
        IN  /\ last <= 100
            /\ call.end \in {"result", "throw"}
            /\ call.end = "result" =>
                   /\ last >= 1
                   /\ StepMeetsTolerance(rs, last)
                   /\ \A k \in 1..(last - 1) : ~StepMeetsTolerance(rs, k)
            /\ call.end = "throw" =>
                   /\ last = 100
                   /\ \A k \in 1..last : ~StepMeetsTolerance(rs, k)

\* A call of calculateInterestRate that returned after more than one
\* iteration.
C1_Witness ==
    IsRateCall(call) /\ call.end = "result" /\ Len(call.rs) > 1

\* C2: when f'(r) is zero at the starting point r = 0.1 (as for n = 0) with
\* finite pv, fv, n and pmt, solving for the interest rate fails with a
\* DivisionSingularity: it does not run the loop to the non-convergence
\* error and it does not return a NaN or an infinity.
C2_SingularityReported ==
    (/\ IsRateCall(call)
     /\ FiniteInputs(call.locals, {"pv", "fv", "n", "pmt"})
     /\ IsZero(NewtonDf(call.locals.pv, Neg(call.locals.fv), call.locals.n,
                        call.locals.pmt, Fin(1, 10))))
    => /\ call.end # "throw"
       /\ ~(call.end = "result" /\ ~IsFinite(call.result))

\* C3: with the periodic rate r = 0, n > 0 and finite pv, fv, pmt, solving
\* for payment gives -(pv + FV) / n and solving for futureValue gives
\* -pv - pmt * n (FV the future value as entered): a finite number, with no
\* division by zero.
C3_ZeroRateLimit ==
    (/\ IsSolveCall(call)
     /\ IsZero(call.locals.r)
     /\ IsFinite(call.locals.n) /\ Sgn(call.locals.n) > 0)
    => /\ (call.field = "payment" /\ FiniteInputs(call.locals, {"pv", "fv"}))
           => /\ call.end = "result"
              /\ call.result = Div(Sub(call.locals.fv, call.locals.pv), call.locals.n)
       /\ (call.field = "futureValue" /\ FiniteInputs(call.locals, {"pv", "pmt"}))
           => /\ call.end = "result"
              /\ call.result = Sub(Neg(call.locals.pv), Mul(call.locals.pmt, call.locals.n))

\* C4: no numeric field of the calculator ever holds a non-finite result
\* ("NaN", "Infinity", "-Infinity"): a solve with a known field that is not
\* a finite number is refused instead.
C4_NoNonFiniteStored ==
    \A f \in Fields :
        state[f] \notin {NaNString, InfinityString, <<"-">> \o InfinityString}

\* The left side pv*(1+r)^n + pmt*((1+r)^n - 1)/r + FV of the fundamental
\* identity, and pv + pmt*n + FV, its limit, at r = 0.
IdentitySum(pv, fv, r, n, pmt) ==
    IF IsZero(r) THEN Add(Add(pv, Mul(pmt, n)), fv)
    ELSE LET g == Pow(Add(One, r), n)
         IN  Add(Add(Mul(pv, g), Div(Mul(pmt, Sub(g, One)), r)), fv)

\* The five quantities a call of solveFor read satisfy the identity.
ValidTuple(l) ==
    /\ FiniteInputs(l, {"pv", "fv", "r", "n", "pmt"})
    /\ IdentitySum(l.pv, Neg(l.fv), l.r, l.n, l.pmt) = Zero

\* The value the field solved for held when its call began.
OriginalOf(c) ==
    CASE c.field = "presentValue" -> c.locals.pv
      [] c.field = "futureValue" -> Neg(c.locals.fv)
      [] c.field = "interestRate" ->
             Mul(Mul(c.locals.r, Whole(frequencyMap[state.paymentFrequency])),
                 Whole(100))
      [] c.field = "numberOfPeriods" -> c.locals.n
      [] c.field = "payment" -> c.locals.pmt

\* |x - y| <= |y| / 10000 for finite x and y.
WithinRelative(x, y) ==
    /\ IsFinite(x)
    /\ IsFinite(y)
    /\ AbsInt(x.n * y.d - y.n * x.d) * y.d <= (AbsInt(y.n) * x.d * y.d) \div 10000

\* C5: round trip.  When the five quantities satisfy the identity, solving
\* for any one of them succeeds and leaves in the field a value within 1e-4
\* relative tolerance of the value it held.
C5_RoundTrip ==
    (/\ IsSolveCall(call)
     /\ call.field \in Fields
     /\ ValidTuple(call.locals))
    => /\ call.end = "result"
       /\ WithinRelative(parseFloat(state[call.field]), OriginalOf(call))

\* The quantities of a call with the value it produced in the place of the
\* field solved for (fv is the future value as entered).
Produced(c) ==
    LET l == c.locals
        own(name, v) == IF c.field = name THEN c.result ELSE v
    IN  [pv |-> own("presentValue", l.pv),
         fv |-> own("futureValue", Neg(l.fv)),
         n |-> own("numberOfPeriods", l.n),
         pmt |-> own("payment", l.pmt),
         r |-> IF c.field = "interestRate"
               THEN Div(Div(c.result, Whole(100)),
                        Whole(frequencyMap[state.paymentFrequency]))
               ELSE l.r]

\* The names of the locals a branch reads.
InputsOf(field) ==
    CASE field = "presentValue" -> {"fv", "r", "n", "pmt"}
      [] field = "futureValue" -> {"pv", "r", "n", "pmt"}
      [] field = "interestRate" -> {"pv", "fv", "n", "pmt"}
      [] field = "numberOfPeriods" -> {"pv", "fv", "r", "pmt"}
      [] field = "payment" -> {"pv", "fv", "r", "n"}

\* C6: every branch uses the one identity and sign convention: the value a
\* branch produces from four finite inputs (r # 0) satisfies
\* pv*(1+r)^n + pmt*((1+r)^n - 1)/r + FV = 0 together with them.
C6_BranchesSatisfyIdentity ==
    (/\ IsSolveCall(call)
     /\ call.field \in Fields
     /\ call.end = "result"
     /\ FiniteInputs(call.locals, InputsOf(call.field))
     /\ ~IsZero(Produced(call).r))
    => LET p == Produced(call)
       IN  /\ ~IsZero(p.r)
           /\ Add(Add(Mul(p.pv, Pow(Add(One, p.r), p.n)),
                      Div(Mul(p.pmt, Sub(Pow(Add(One, p.r), p.n), One)), p.r)),
                  p.fv) = Zero

\* How a call of solveFor ends, as its caller sees it.
Outcome(c) ==
    <<c.end, IF c.end = "result" THEN ResultText(c.field, c.result) ELSE <<>>>>

\* The same number typed with a trailing ".0".
Respelled(text) ==
    IF IsFinite(parseFloat(text)) /\ \A i \in 1..Len(text) : text[i] # "."
    THEN text \o <<".", "0">>
    ELSE text

\* States that give calculateInterestRate the same pv, fv, n, pmt and
\* paymentFrequency as st: the rate field holds anything and the numbers are
\* typed differently.
SameRateInputs(st) ==
    {[st EXCEPT !.interestRate = v] : v \in {<<>>, <<"0">>, <<"7", ".", "5", "0", "0">>}}
    \cup {[st EXCEPT !.presentValue = Respelled(st.presentValue),
                     !.futureValue = Respelled(st.futureValue),
                     !.numberOfPeriods = Respelled(st.numberOfPeriods),
                     !.payment = Respelled(st.payment)]}

\* C7: the outcome of the interest-rate solver is a function of pv, fv, n,
\* pmt and paymentFrequency alone: a run from the same inputs ends the same
\* way whatever the rate field holds and however the numbers were typed, and
\* a second run right after a first one repeats its outcome.
C7_RateSolverDeterministic ==
    LET now == SolveSwitch(state, "interestRate")
    IN  /\ \A alt \in SameRateInputs(state) :
               LET other == SolveSwitch(alt, "interestRate")
               IN  other.end = now.end /\ other.result = now.result
        /\ IsRateCall(call) => (now.end = call.end /\ now.result = call.result)

\* The interest-rate solver has just returned a root and the rate field
\* holds it.
C7_Witness ==
    /\ IsRateCall(call)
    /\ call.end = "result"
    /\ call.result = Whole(1200)
    /\ state.interestRate = <<"1", "2", "0", "0", ".", "0", "0", "0">>


\* text is a decimal numeral with exactly digits digits after the point.
HasDecimals(text, digits) ==
    /\ Len(text) >= digits + 2
    /\ text[Len(text) - digits] = "."
    /\ \A i \in 1..Len(text) :
           \/ i = Len(text) - digits
           \/ IsDigit(text[i])
           \/ i = 1 /\ text[i] = "-"

\* text is x rounded to digits decimals: the spelling of a non-finite x, or
\* a numeral with digits decimals that is no further than half a unit of
\* the last decimal from x.
RoundedTo(text, x, digits) ==
    CASE IsNaN(x) -> text = NaNString
      [] IsInf(x) -> text = (IF x.n < 0 THEN <<"-">> ELSE <<>>) \o InfinityString
      [] OTHER ->
           LET q == parseFloat(text)
           IN  /\ HasDecimals(text, digits)
               /\ IsFinite(q)
               /\ AbsInt(q.n * x.d - x.n * q.d) <= (q.d * x.d) \div (2 * Pow10(digits))

\* What a call of solveFor that ended as c may do to the state.
FrameOf(c, st, stNew, ls, lsNew) ==
    IF c.end = "result"
    THEN /\ c.field \in Fields
         /\ RoundedTo(stNew[c.field], c.result,
                      IF c.field = "interestRate" THEN 3 ELSE 2)
         /\ \A k \in Keys \ {c.field} : stNew[k] = st[k]
         /\ lsNew = c.field
    ELSE /\ stNew = st
         /\ lsNew = ls
         /\ c.end = "throw" => c.field = "interestRate"
         /\ c.end = "default" <=> c.field = "paymentFrequency"

\* C8: frame of solveFor.  A call that succeeds changes state[field], which
\* receives the computed value rounded to 3 decimals for interestRate and 2
\* for the other fields, and lastSolved, which becomes field; every other
\* field is left as it was.  A call that throws, or that names
\* paymentFrequency, changes neither state nor lastSolved.
C8_SolveForFrame ==
    [][IsSolveCall(call') => FrameOf(call', state, state', lastSolved, lastSolved')]_vars

\* A second solve has succeeded on a state in which an earlier solve and typed
\* text are present.
C8_Witness ==
    /\ IsSolveCall(call)
    /\ call.end = "result"
    /\ call.field = "interestRate"
    /\ lastSolved = "interestRate"
    /\ state.payment = <<"0", ".", "0", "0">>
    /\ state.presentValue = <<"1">>
    /\ state.futureValue = <<"-", "2">>

\* C9: highlight lifecycle.  After a successful solve lastSolved is the field
\* solved; at most one timer is pending and it belongs to the field that is
\* highlighted, the timer of an earlier solve having been cancelled; the
\* highlight is removed only by its own timer; and, as long as no further
\* solve succeeds, lastSolved eventually returns to null.
C9_HighlightLifecycle ==
    /\ []((IsSolveCall(call) /\ call.end = "result") => lastSolved = call.field)
    /\ [](timers = (IF lastSolved = null THEN {} ELSE {lastSolved}))
    /\ [][(lastSolved # null /\ lastSolved' = null)
             => (timers = {lastSolved} /\ timers' = {})]_vars
    /\ \A k \in 0..MaxSolves :
           (lastSolved # null /\ solves = k) ~> (lastSolved = null \/ solves # k)

\* A second solve, of another field, has succeeded while the highlight of the
\* first one was still on: only the timer of the second is pending.
C9_Witness ==
    /\ solves = 2
    /\ IsSolveCall(call)
    /\ call.end = "result"
    /\ lastSolved = "interestRate"
    /\ timers = {"interestRate"}
    /\ state.payment = <<"0", ".", "0", "0">>

\* Texts a field may hold when it is solved for: nothing, something that is
\* no number, a stale number.
OwnTexts ==
    {<<>>, <<"-">>, <<"9", "9">>}

\* C10: solveFor(field) does not depend on what field holds: with any other
\* content in state[field] the call ends the same way and stores the same
\* text, and a call repeated on the state it produced repeats its outcome.
C10_OwnFieldIgnored ==
    /\ \A field \in Fields : \A v \in OwnTexts :
           Outcome(SolveSwitch([state EXCEPT ![field] = v], field))
               = Outcome(SolveSwitch(state, field))
    /\ (IsSolveCall(call) /\ call.field \in Fields)
           => Outcome(SolveSwitch(state, call.field)) = Outcome(call)

\* presentValue has been solved for while it held typed text.
C10_Witness ==
    /\ IsSolveCall(call)
    /\ call.end = "result"
    /\ call.field = "presentValue"
    /\ IsFinite(call.locals.pv)
    /\ IsFinite(call.result)
    /\ call.result # call.locals.pv

=============================================================================
